---- MODULE Spec2Model ----
(***************************************************************************)
(* Model of stwdo_housing_alerts.py: one run of main() (fetch the page,    *)
(* extract the options of two <select> elements, then either mail an HTML  *)
(* table or print "no availability"), and the two pure functions           *)
(* extract_options and build_html_table on their own.                      *)
(*                                                                         *)
(* Text is a sequence of one-character strings, so that str.strip() and    *)
(* the f-string formatting are computed and not assumed.  Markup that the  *)
(* code emits as a literal is one token of such a sequence.                *)
(***************************************************************************)
EXTENDS Naturals, Sequences, FiniteSets

\* Most children a <select> of a generated document has.
MaxOptions == 2
\* Longest list handed to build_html_table when it is run on its own.
MaxCells == 2

VARIABLES
    pc,            \* position of the run
    status_code,   \* HTTP status of the response; 0 while there is none
    soup,          \* the parsed document: the <select> elements in document order
    field_name,    \* argument of extract_options when it is run on its own
    options,       \* its return value
    cities,        \* main's local
    complexes,     \* main's local
    html_table,    \* main's local: the string build_html_table returned
    body,          \* send_email_alert's local: the HTML body
    outbox,        \* what sendmail handed to the server
    console,       \* the lines printed, in order
    raised,        \* the exception that left main; <<>> while there is none
    exc,           \* the exception the except clause of send_email_alert caught, or ""
    calls          \* how often each external call and each function was entered

vars == <<pc, status_code, soup, field_name, options, cities, complexes,
          html_table, body, outbox, console, raised, exc, calls>>

----------------------------------------------------------------------------
(* Configuration *)

URL == "https://www.stwdo.de/en/living-houses-application/current-housing-offers"

CITY_FIELD == "tx_openimmo_list[tx_openimmo_list][city]"

COMPLEX_FIELD == "tx_openimmo_list[tx_openimmo_list][residentialComplex]"

\* A name no target field has.
OTHER_FIELD == "tx_openimmo_list[tx_openimmo_list][rooms]"

\* The "All" placeholder.
ALL == <<"A", "l", "l">>

\* A lone surrogate, as the character reference &#xD800; yields it.
SURROGATE == "U+D800"

----------------------------------------------------------------------------
(* Strings *)

IsSpace(c) == c \in {" ", "\t", "\n"}

RECURSIVE lstrip(_)
lstrip(s) ==
    IF s = <<>> THEN s
    ELSE IF IsSpace(Head(s)) THEN lstrip(Tail(s)) ELSE s

RECURSIVE rstrip(_)
rstrip(s) ==
    IF s = <<>> THEN s
    ELSE IF IsSpace(s[Len(s)]) THEN rstrip(SubSeq(s, 1, Len(s) - 1)) ELSE s

\* str.strip()
strip(s) == rstrip(lstrip(s))

\* sep.join(lines)
RECURSIVE join(_, _)
join(sep, lines) ==
    IF lines = <<>> THEN <<>>
    ELSE IF Len(lines) = 1 THEN lines[1]
    ELSE lines[1] \o <<sep>> \o join(sep, Tail(lines))

----------------------------------------------------------------------------
(* Documents *)

Element(tag, disabled, text, kids) ==
    [tag |-> tag, disabled |-> disabled, text |-> text, kids |-> kids]

Select(name, kids) == [name |-> name, kids |-> kids]

\* Tag.text: the element's own string followed by the strings of its descendants.
RECURSIVE get_text(_)
RECURSIVE texts_of(_)
get_text(el) == el.text \o texts_of(el.kids)
texts_of(kids) ==
    IF kids = <<>> THEN <<>> ELSE get_text(Head(kids)) \o texts_of(Tail(kids))


\* Variant: every select matches, whatever its name.
select_matches_any(sel, name) == TRUE

\* select[name="..."]: the select's name attribute equals field_name.
select_matches(sel, name) == sel.name = name

\* Variant: the selector without :not([disabled]).
option_matches_disabled_too(el) == el.tag = "option"

\* "> option:not([disabled])", tested on a child of the select.
option_matches(el) == el.tag = "option" /\ ~el.disabled

\* The children of one select the selector matches, in document order.
RECURSIVE child_options(_)
child_options(kids) ==
    IF kids = <<>> THEN <<>>
    ELSE (IF option_matches(Head(kids)) THEN <<Head(kids)>> ELSE <<>>)
         \o child_options(Tail(kids))

\* soup.select(selector): the matches over the whole document, in document order.
RECURSIVE soup_select(_, _)
soup_select(doc, name) ==
    IF doc = <<>> THEN <<>>
    ELSE (IF select_matches(Head(doc), name)
          THEN child_options(Head(doc).kids) ELSE <<>>)
         \o soup_select(Tail(doc), name)

\* [opt.text.strip() for opt in ...]
RECURSIVE stripped_texts(_)
stripped_texts(els) ==
    IF els = <<>> THEN <<>>
    ELSE <<strip(get_text(Head(els)))>> \o stripped_texts(Tail(els))

\* Variant: the filter without the test against "All".
keep_option_all_too(opt) == opt # <<>>

\* "if opt and opt != "All""
keep_option(opt) == opt # <<>> /\ opt # ALL

RECURSIVE keep_options(_)
keep_options(opts) ==
    IF opts = <<>> THEN <<>>
    ELSE (IF keep_option(Head(opts)) THEN <<Head(opts)>> ELSE <<>>)
         \o keep_options(Tail(opts))

extract_options(doc, name) == keep_options(stripped_texts(soup_select(doc, name)))

----------------------------------------------------------------------------
(* The table *)

TABLE_OPEN == <<"<table border=\"1\" cellspacing=\"0\" cellpadding=\"5\" style=\"border-collapse: collapse;\">">>

TABLE_HEAD == <<"<thead><tr><th>Cities</th><th>Residential Areas</th></tr></thead>">>

TBODY_OPEN == <<"<tbody>">>

TABLE_CLOSE == <<"</tbody></table>">>

\* f"<tr><td>{city}</td><td>{area}</td></tr>"
row_line(city, area) ==
    <<"<tr><td>">> \o city \o <<"</td><td>">> \o area \o <<"</td></tr>">>

\* Variant: min in place of max.
max_len_min(cs, xs) == IF Len(cs) <= Len(xs) THEN Len(cs) ELSE Len(xs)

\* max(len(cities), len(complexes))
max_len(cs, xs) == IF Len(cs) >= Len(xs) THEN Len(cs) ELSE Len(xs)

\* The loop "for i in range(max_len)" from index i on; Python's index i is
\* position i + 1 of the sequence.
RECURSIVE table_rows(_, _, _, _)
table_rows(cs, xs, i, n) ==
    IF i >= n THEN <<>>
    ELSE LET city == IF i < Len(cs) THEN cs[i + 1] ELSE <<>>
             area == IF i < Len(xs) THEN xs[i + 1] ELSE <<>>
         IN  <<row_line(city, area)>> \o table_rows(cs, xs, i + 1, n)

\* The list html before it is joined.
table_lines(cs, xs) ==
    <<TABLE_OPEN, TABLE_HEAD, TBODY_OPEN>>
    \o table_rows(cs, xs, 0, max_len(cs, xs))
    \o <<TABLE_CLOSE>>

build_html_table(cs, xs) == join("\n", table_lines(cs, xs))

----------------------------------------------------------------------------
(* The notifier's strings *)

\* get_timestamp(): the clock reading in the form [%Y-%m-%d %H:%M:%S].
get_timestamp == "[YYYY-MM-DD HH:MM:SS]"

\* The f-string of send_email_alert around its two substitutions.
email_body(table) ==
    <<"<html><body><p>Changes detected in STWDO housing availability:</p>",
      "<p>Link: <a href=\"">>
    \o <<URL>>
    \o <<"\">STWDO Housing Offers</a></p>">>
    \o table
    \o <<"</body></html>">>

\* MIMEText(body, "html") encodes the body as us-ascii or else utf-8; a lone
\* surrogate has no utf-8 encoding and the constructor raises UnicodeEncodeError.
mime_text_raises(b) == \E i \in 1..Len(b) : b[i] = SURROGATE

sent_line == <<get_timestamp, " Email alert sent!">>

\* Variant: the failure line without the exception.
failed_line_no_cause(e) == <<get_timestamp, " Failed to send email: ">>

\* f"{get_timestamp()} Failed to send email: {e}"
failed_line(e) == <<get_timestamp, " Failed to send email: ", e>>

none_line == <<get_timestamp, " No housing availability detected.">>

\* Variant: "and" in place of "or".
availability_both(cs, xs) == cs # <<>> /\ xs # <<>>

\* Variant: a condition that is always true.
availability_always(cs, xs) == TRUE

\* "if cities or complexes"
availability(cs, xs) == cs # <<>> \/ xs # <<>>

\* Variant: only a 5xx status raises.
raise_for_status_5xx(code) == code >= 500 /\ code < 600

\* Response.raise_for_status() raises HTTPError for a 4xx or a 5xx status.
raise_for_status(code) == code >= 400 /\ code < 600

----------------------------------------------------------------------------
(* Inputs *)

SeqsUpTo(S, n) == UNION {[1..k -> S] : k \in 0..n}

Option(disabled, text) == Element("option", disabled, text, <<>>)

\* The children a <select> of a fetched page is given.
PageElements ==
    { Option(FALSE, <<"B", " ">>),
      Option(FALSE, <<" ", "A", "l", "l", " ">>),
      Option(FALSE, <<SURROGATE>>),
      Option(TRUE, <<"B">>),
      Element("optgroup", FALSE, <<>>, <<Option(FALSE, <<"B">>)>>) }

\* A select of a page: not there, or there with these children.
SelectChoices ==
    {[present |-> FALSE, kids |-> <<>>]}
    \cup {[present |-> TRUE, kids |-> k] : k \in SeqsUpTo(PageElements, MaxOptions)}

SelectOrNot(name, c) == IF c.present THEN <<Select(name, c.kids)>> ELSE <<>>

\* A page: an unrelated select, then the city select and the residential-complex
\* select, each present or not.
Pages ==
    { <<Select(OTHER_FIELD, <<Option(FALSE, <<"B">>)>>)>>
        \o SelectOrNot(CITY_FIELD, a) \o SelectOrNot(COMPLEX_FIELD, b) :
      a \in SelectChoices, b \in SelectChoices }

\* The final status of a response: success, a 3xx that is not followed, 4xx, 5xx.
STATUS_CODES == {200, 300, 404, 503}

\* requests.RequestException raised without a response.
TRANSPORT_ERRORS == {"ConnectionError", "Timeout"}

SMTP_STEPS == {"connect", "starttls", "login", "sendmail", "quit"}

\* str(e) of what the call at this step raises.
smtp_exception(step) ==
    CASE step = "connect" -> "Connection refused"
      [] step = "starttls" -> "STARTTLS extension not supported by server."
      [] step = "login" -> "Username and Password not accepted"
      [] step = "sendmail" -> "Recipient address rejected"
      [] step = "quit" -> "Connection unexpectedly closed"

NoCalls == [get |-> 0, extract |-> 0, build |-> 0, send |-> 0, smtp |-> 0]

Bump(c, k) == [c EXCEPT ![k] = @ + 1]

----------------------------------------------------------------------------
(* One run of main() *)

Init ==
    /\ pc = "start"
    /\ status_code = 0
    /\ soup = <<>>
    /\ field_name = ""
    /\ options = <<>>
    /\ cities = <<>>
    /\ complexes = <<>>
    /\ html_table = <<>>
    /\ body = <<>>
    /\ outbox = <<>>
    /\ console = <<>>
    /\ raised = <<>>
    /\ exc = ""
    /\ calls = NoCalls

\* requests.get raises (no connection, timeout): fetch_housing_page raises
\* RuntimeError, which nothing in main catches.
FetchTransportError ==
    /\ pc = "start"
    /\ \E e \in TRANSPORT_ERRORS :
        /\ raised' = <<"RuntimeError", "Failed to fetch page: ", e>>
        /\ pc' = "aborted"
        /\ calls' = Bump(calls, "get")
    /\ UNCHANGED <<status_code, soup, field_name, options, cities, complexes,
                   html_table, body, outbox, console, exc>>

\* requests.get returns a response; raise_for_status decides.
FetchResponse ==
    /\ pc = "start"
    /\ \E code \in STATUS_CODES, page \in Pages :
        /\ status_code' = code
        /\ calls' = Bump(calls, "get")
        /\ IF raise_for_status(code)
           THEN /\ raised' = <<"RuntimeError", "Failed to fetch page: ", "HTTPError">>
                /\ pc' = "aborted"
                /\ soup' = soup
           ELSE /\ soup' = page
                /\ pc' = "extract_cities"
                /\ raised' = raised
    /\ UNCHANGED <<field_name, options, cities, complexes, html_table, body,
                   outbox, console, exc>>

\* cities = extract_options(soup, ...)
ExtractCities ==
    /\ pc = "extract_cities"
    /\ cities' = extract_options(soup, CITY_FIELD)
    /\ calls' = Bump(calls, "extract")
    /\ pc' = "extract_complexes"
    /\ UNCHANGED <<status_code, soup, field_name, options, complexes, html_table,
                   body, outbox, console, raised, exc>>

\* complexes = extract_options(soup, ...)
ExtractComplexes ==
    /\ pc = "extract_complexes"
    /\ complexes' = extract_options(soup, COMPLEX_FIELD)
    /\ calls' = Bump(calls, "extract")
    /\ pc' = "decide"
    /\ UNCHANGED <<status_code, soup, field_name, options, cities, html_table,
                   body, outbox, console, raised, exc>>

\* "if cities or complexes": html_table = build_html_table(cities, complexes)
BuildTable ==
    /\ pc = "decide"
    /\ availability(cities, complexes)
    /\ html_table' = build_html_table(cities, complexes)
    /\ calls' = Bump(calls, "build")
    /\ pc' = "send"
    /\ UNCHANGED <<status_code, soup, field_name, options, cities, complexes,
                   body, outbox, console, raised, exc>>

\* Variant: the else branch prints nothing.
NoAvailabilitySilent ==
    /\ pc = "decide"
    /\ ~availability(cities, complexes)
    /\ pc' = "done"
    /\ UNCHANGED <<status_code, soup, field_name, options, cities, complexes,
                   html_table, body, outbox, console, raised, calls, exc>>

\* The else branch of main.
NoAvailability ==
    /\ pc = "decide"
    /\ ~availability(cities, complexes)
    /\ console' = Append(console, none_line)
    /\ pc' = "done"
    /\ UNCHANGED <<status_code, soup, field_name, options, cities, complexes,
                   html_table, body, outbox, raised, calls, exc>>

\* send_email_alert up to its try: the body, then the message.
Compose ==
    /\ pc = "send"
    /\ body' = email_body(html_table)
    /\ calls' = Bump(calls, "send")
    /\ IF mime_text_raises(email_body(html_table))
       THEN /\ raised' = <<"UnicodeEncodeError">>
            /\ pc' = "aborted"
       ELSE /\ raised' = raised
            /\ pc' = "connect"
    /\ UNCHANGED <<status_code, soup, field_name, options, cities, complexes,
                   html_table, outbox, console, exc>>

\* One call inside the with block returns: SMTP(...), starttls, login, sendmail,
\* and the QUIT of leaving the block, after which the success line is printed.
SmtpStep ==
    /\ pc \in SMTP_STEPS
    /\ pc' = CASE pc = "connect" -> "starttls"
               [] pc = "starttls" -> "login"
               [] pc = "login" -> "sendmail"
               [] pc = "sendmail" -> "quit"
               [] pc = "quit" -> "done"
    /\ calls' = IF pc = "connect" THEN Bump(calls, "smtp") ELSE calls
    /\ outbox' = IF pc = "sendmail" THEN Append(outbox, body) ELSE outbox
    /\ console' = IF pc = "quit" THEN Append(console, sent_line) ELSE console
    /\ UNCHANGED <<status_code, soup, field_name, options, cities, complexes,
                   html_table, body, raised, exc>>

\* Variant: no except clause, the exception leaves main.
SmtpRaisePropagates ==
    /\ pc \in SMTP_STEPS
    /\ exc' = smtp_exception(pc)
    /\ raised' = <<smtp_exception(pc)>>
    /\ calls' = IF pc = "connect" THEN Bump(calls, "smtp") ELSE calls
    /\ pc' = "aborted"
    /\ UNCHANGED <<status_code, soup, field_name, options, cities, complexes,
                   html_table, body, outbox, console>>

\* One call inside the with block raises: "except Exception as e" prints.
SmtpRaise ==
    /\ pc \in SMTP_STEPS
    /\ exc' = smtp_exception(pc)
    /\ console' = Append(console, failed_line(smtp_exception(pc)))
    /\ calls' = IF pc = "connect" THEN Bump(calls, "smtp") ELSE calls
    /\ pc' = "done"
    /\ UNCHANGED <<status_code, soup, field_name, options, cities, complexes,
                   html_table, body, outbox, raised>>

Next ==
    \/ FetchTransportError
    \/ FetchResponse
    \/ ExtractCities
    \/ ExtractComplexes
    \/ BuildTable
    \/ NoAvailability
    \/ Compose
    \/ SmtpStep
    \/ SmtpRaise

Spec == Init /\ [][Next]_vars

----------------------------------------------------------------------------
(* extract_options on its own *)

OptionTexts ==
    { <<>>,
      <<" ", "\t">>,
      ALL,
      <<" ", "A", "l", "l", "\n">>,
      <<"a", "l", "l">>,
      <<"B">>,
      <<" ", "B", " ", "B", " ">> }

\* Children of a select: options, enabled or not; an option group holding an
\* option; an option left open, which html.parser nests the next option in.
SelectElements ==
    { Option(d, t) : d \in BOOLEAN, t \in OptionTexts }
    \cup { Element("optgroup", FALSE, <<>>, <<Option(d, <<"B">>)>>) : d \in BOOLEAN }
    \cup { Element("option", FALSE, <<"B">>, <<Option(FALSE, <<"A">>)>>) }

FIELD_NAMES == {CITY_FIELD, COMPLEX_FIELD, OTHER_FIELD}

Selects(n) == { Select(f, k) : f \in FIELD_NAMES, k \in SeqsUpTo(SelectElements, n) }

\* Documents of no select, of one select, and of two selects of at most one child.
Documents ==
    {<<>>}
    \cup { <<s>> : s \in Selects(MaxOptions) }
    \cup { <<s, t>> : s \in Selects(1), t \in Selects(1) }

InitExtract ==
    /\ pc = "extract_call"
    /\ soup \in Documents
    /\ field_name \in {CITY_FIELD, COMPLEX_FIELD}
    /\ status_code = 0
    /\ options = <<>>
    /\ cities = <<>>
    /\ complexes = <<>>
    /\ html_table = <<>>
    /\ body = <<>>
    /\ outbox = <<>>
    /\ console = <<>>
    /\ raised = <<>>
    /\ exc = ""
    /\ calls = NoCalls

ExtractCall ==
    /\ pc = "extract_call"
    /\ options' = extract_options(soup, field_name)
    /\ calls' = Bump(calls, "extract")
    /\ pc' = "extract_return"
    /\ UNCHANGED <<status_code, soup, field_name, cities, complexes, html_table,
                   body, outbox, console, raised, exc>>

SpecExtract == InitExtract /\ [][ExtractCall]_vars

----------------------------------------------------------------------------
(* build_html_table on its own *)

TableCells == {<<"A">>, <<"B">>, <<"X">>}

InitTable ==
    /\ pc = "table_call"
    /\ cities \in SeqsUpTo(TableCells, MaxCells)
    /\ complexes \in SeqsUpTo(TableCells, MaxCells)
    /\ status_code = 0
    /\ soup = <<>>
    /\ field_name = ""
    /\ options = <<>>
    /\ html_table = <<>>
    /\ body = <<>>
    /\ outbox = <<>>
    /\ console = <<>>
    /\ raised = <<>>
    /\ exc = ""
    /\ calls = NoCalls

TableCall ==
    /\ pc = "table_call"
    /\ html_table' = build_html_table(cities, complexes)
    /\ calls' = Bump(calls, "build")
    /\ pc' = "table_return"
    /\ UNCHANGED <<status_code, soup, field_name, options, cities, complexes,
                   body, outbox, console, raised, exc>>

SpecTable == InitTable /\ [][TableCall]_vars

----------------------------------------------------------------------------
(* Properties of a run of main *)

RunEnded == pc \in {"done", "aborted"}

\* fetch_housing_page raised.
FetchFailed == raised # <<>> /\ raised[1] = "RuntimeError"

\* The fetch returned a document and both extractions are over.
Extracted == pc \notin {"start", "extract_cities", "extract_complexes"} /\ ~FetchFailed

Longer(cs, xs) == IF Len(cs) >= Len(xs) THEN Len(cs) ELSE Len(xs)

CountOf(s, tok) == Cardinality({i \in 1..Len(s) : s[i] = tok})

Printed(line) == \E i \in 1..Len(console) : console[i] = line

PrintedFailure == \E i \in 1..Len(console) : console[i][2] = " Failed to send email: "

HasSelect(doc, name) == \E i \in 1..Len(doc) : doc[i].name = name

\* C1: a run whose fetch succeeded and whose city list or complex list is not
\* empty enters send_email_alert exactly once (never twice at any point of the
\* run), the body built there holds the source URL and as many table body rows as
\* the longer list has entries, and no "no availability" line is printed.
C1_OneAlert ==
    /\ calls.send <= 1
    /\ (Extracted /\ (cities # <<>> \/ complexes # <<>>)) => ~Printed(none_line)
    /\ (RunEnded /\ ~FetchFailed /\ (cities # <<>> \/ complexes # <<>>)) =>
        /\ calls.send = 1
        /\ CountOf(body, URL) >= 1
        /\ CountOf(body, "<tr><td>") = Longer(cities, complexes)
        /\ CountOf(body, "</td></tr>") = Longer(cities, complexes)

\* The alert went out for lists of different lengths.
C1_Witness ==
    /\ pc = "done"
    /\ Len(cities) = 2
    /\ Len(complexes) = 1
    /\ Printed(sent_line)
    /\ outbox = <<body>>

\* C2: a run whose fetch succeeded and whose two lists are both empty never builds
\* the table, never enters send_email_alert and never opens an SMTP session, and
\* when it has ended the console holds the timestamped "no availability" line.
C2_NoAlert ==
    (Extracted /\ cities = <<>> /\ complexes = <<>>) =>
        /\ calls.build = 0
        /\ calls.send = 0
        /\ calls.smtp = 0
        /\ outbox = <<>>
        /\ RunEnded =>
            /\ pc = "done"
            /\ console = <<none_line>>
            /\ console[1][1] = get_timestamp

\* Both selects are there, with children, and nothing usable among them.
C2_Witness ==
    /\ pc = "done"
    /\ console = <<none_line>>
    /\ Len(soup) = 3
    /\ Len(soup[2].kids) = 2
    /\ Len(soup[3].kids) = 2

\* C3 as stated: a transport exception, a timeout or any status outside 2xx ends
\* the run with the fetch's exception, with no extraction, no email-send attempt
\* and no console line.
C3_AnyNon2xxAborts ==
    (calls.get >= 1 /\ ~(status_code >= 200 /\ status_code < 300)) =>
        /\ pc = "aborted"
        /\ FetchFailed
        /\ calls = [NoCalls EXCEPT !.get = 1]
        /\ console = <<>>

\* C3 amended: a transport exception, a timeout or a 4xx or 5xx status ends the
\* run with the fetch's exception after one GET, with no extraction, no
\* email-send attempt and no console line; a response of any other status (a 3xx
\* that was not followed included) is parsed, and the run goes on.
C3_FetchFailureAborts ==
    /\ calls.get <= 1
    /\ (calls.get = 1 /\ (status_code = 0 \/ (status_code >= 400 /\ status_code < 600))) =>
        /\ pc = "aborted"
        /\ FetchFailed
        /\ calls = [NoCalls EXCEPT !.get = 1]
        /\ cities = <<>> /\ complexes = <<>>
        /\ console = <<>>
        /\ outbox = <<>>
    /\ (calls.get = 1 /\ status_code # 0 /\ status_code < 400) => ~FetchFailed

\* The server answered 404.
C3_Witness == pc = "aborted" /\ status_code = 404 /\ FetchFailed

\* C4: when a call of the SMTP session raises, send_email_alert catches it: the
\* console holds exactly one line, the timestamped failure line with the
\* exception's message, no success line, and main ends normally.
C4_SmtpFailureCaught ==
    exc # "" =>
        /\ pc = "done"
        /\ raised = <<>>
        /\ Len(console) = 1
        /\ console[1][1] = get_timestamp
        /\ console[1][2] = " Failed to send email: "
        /\ CountOf(console[1], exc) = 1
        /\ ~Printed(sent_line)

\* The login was refused.
C4_Witness == exc = smtp_exception("login") /\ pc = "done" /\ calls.smtp = 1

\* C5 as stated: whatever is raised inside the notifier, composition included, is
\* logged there and the run ends normally.
C5_NotifierNeverRaises ==
    calls.send >= 1 =>
        /\ raised = <<>>
        /\ (RunEnded /\ ~Printed(sent_line)) => PrintedFailure

\* C5 amended: an exception raised inside the try block of the notifier (opening
\* the session, STARTTLS, login, sendmail, closing the session) is recovered
\* there: one line with the timestamp and the exception's message is printed and
\* the run ends normally.  An exception raised while the message is composed,
\* before the try block, is not recovered: it leaves main with nothing printed
\* and no SMTP session opened.
C5_TryBlockRecovers ==
    /\ exc # "" =>
        /\ pc = "done"
        /\ raised = <<>>
        /\ console = <<<<"[YYYY-MM-DD HH:MM:SS]", " Failed to send email: ", exc>>>>
    /\ (calls.send = 1 /\ CountOf(body, SURROGATE) > 0) =>
        /\ pc = "aborted"
        /\ raised = <<"UnicodeEncodeError">>
        /\ console = <<>>
        /\ calls.smtp = 0
        /\ exc = ""
    /\ (calls.send = 1 /\ raised # <<>>) => CountOf(body, SURROGATE) > 0

\* sendmail raised after a message was composed.
C5_Witness ==
    /\ exc = smtp_exception("sendmail")
    /\ pc = "done"
    /\ body # <<>>
    /\ outbox = <<>>

\* C7: for a document with no select of the given name extract_options returns
\* the empty list and raises nothing, and a run on a page with neither target
\* select ends as a run on a page whose selects hold nothing usable does: normally,
\* with the "no availability" line alone and no alert.
C7_MissingSelect ==
    /\ (pc \notin {"start", "extract_cities"} /\ ~HasSelect(soup, CITY_FIELD)) =>
            cities = <<>>
    /\ (Extracted /\ ~HasSelect(soup, COMPLEX_FIELD)) => complexes = <<>>
    /\ (calls.extract >= 1) => raised \in {<<>>, <<"UnicodeEncodeError">>}
    /\ (calls.extract >= 1 /\ calls.send = 0) => raised = <<>>
    /\ (RunEnded /\ ~FetchFailed /\ cities = <<>> /\ complexes = <<>>) =>
        /\ pc = "done"
        /\ raised = <<>>
        /\ console = <<none_line>>
        /\ calls = [NoCalls EXCEPT !.get = 1, !.extract = 2]
        /\ outbox = <<>>
        /\ exc = ""

\* A page with the unrelated select only.
C7_Witness ==
    /\ pc = "done"
    /\ Len(soup) = 1
    /\ soup[1].name = OTHER_FIELD
    /\ Len(soup[1].kids) = 1
    /\ calls.extract = 2

\* The four ends of a run.
EndFetchFailed == pc = "aborted" /\ FetchFailed /\ console = <<>>

EndNoAvailability == pc = "done" /\ console = <<none_line>>

EndSent == pc = "done" /\ console = <<sent_line>>

EndSendFailed == pc = "done" /\ Len(console) = 1 /\ PrintedFailure

\* A fifth end: composing the message raised.
EndComposeFailed == pc = "aborted" /\ raised = <<"UnicodeEncodeError">> /\ console = <<>>

\* C10 as stated: at most one GET and one SMTP session, the session only after a
\* successful GET and both extractions, and every ended run is exactly one of:
\* fetch failed, "no availability" printed, "sent" printed, "failed to send"
\* printed; a run that ended normally printed exactly one line.
C10_FourOutcomes ==
    /\ calls.get <= 1
    /\ calls.smtp <= 1
    /\ calls.smtp = 1 => (calls.get = 1 /\ ~FetchFailed /\ calls.extract = 2)
    /\ pc = "done" => Len(console) = 1
    /\ RunEnded =>
        Cardinality({k \in 1..4 :
            <<EndFetchFailed, EndNoAvailability, EndSent, EndSendFailed>>[k]}) = 1

\* C10 amended: at most one GET and one SMTP session, the session only after a
\* successful GET and both extractions, and every ended run is exactly one of:
\* fetch failed (abnormal end, nothing printed), composing the message failed
\* (abnormal end, nothing printed, no SMTP session), "no availability" printed,
\* "sent" printed, "failed to send" printed; a run that ended normally printed
\* exactly one line.
C10_FiveOutcomes ==
    /\ calls.get <= 1
    /\ calls.smtp <= 1
    /\ calls.smtp = 1 => (calls.get = 1 /\ ~FetchFailed /\ calls.extract = 2 /\ calls.send = 1)
    /\ pc = "done" => (Len(console) = 1 /\ raised = <<>>)
    /\ pc = "aborted" => (console = <<>> /\ calls.smtp = 0)
    /\ ~RunEnded => console = <<>>
    /\ RunEnded =>
        Cardinality({k \in 1..5 :
            <<EndFetchFailed, EndComposeFailed, EndNoAvailability, EndSent,
              EndSendFailed>>[k]}) = 1

\* The session was opened, the message handed over, and closing the session raised.
C10_Witness ==
    /\ EndSendFailed
    /\ exc = smtp_exception("quit")
    /\ outbox = <<body>>
    /\ calls = [get |-> 1, extract |-> 2, build |-> 1, send |-> 1, smtp |-> 1]

----------------------------------------------------------------------------
(* Properties of build_html_table *)

FirstIndex(s, tok) ==
    CHOOSE i \in 1..Len(s) : s[i] = tok /\ \A j \in 1..(i - 1) : s[j] # tok

\* The pieces of s between the occurrences of sep.
RECURSIVE SplitOn(_, _)
SplitOn(s, sep) ==
    IF CountOf(s, sep) = 0 THEN <<s>>
    ELSE LET i == FirstIndex(s, sep)
         IN  <<SubSeq(s, 1, i - 1)>> \o SplitOn(SubSeq(s, i + 1, Len(s)), sep)

IsRow(line) ==
    /\ Len(line) >= 3
    /\ line[1] = "<tr><td>"
    /\ line[Len(line)] = "</td></tr>"
    /\ CountOf(line, "</td><td>") = 1

\* The two cells of a row.
RowCells(line) ==
    LET p == FirstIndex(line, "</td><td>")
    IN  <<SubSeq(line, 2, p - 1), SubSeq(line, p + 1, Len(line) - 1)>>

\* The i-th entry (from 1), or the empty string past the end.
CellAt(xs, i) == IF i <= Len(xs) THEN xs[i] ELSE <<>>

\* C8: build_html_table returns the opening line, one header row, the body
\* opening, then exactly n = max(len(cities), len(complexes)) body rows and the
\* closing line; body row i holds cities[i] and complexes[i], the empty string
\* standing for an entry past the end of its list, in index order.  ([], [])
\* gives no body row and (["A","B"], ["X"]) gives ("A","X") then ("B","").
C8_TableRows ==
    pc = "table_return" =>
        LET lines == SplitOn(html_table, "\n")
            n == Longer(cities, complexes)
        IN  /\ Len(lines) = n + 4
            /\ lines[1] = TABLE_OPEN
            /\ lines[2] = TABLE_HEAD
            /\ lines[3] = TBODY_OPEN
            /\ lines[n + 4] = TABLE_CLOSE
            /\ CountOf(html_table, TABLE_HEAD[1]) = 1
            /\ CountOf(html_table, "<tr><td>") = n
            /\ \A i \in 1..n :
                /\ IsRow(lines[3 + i])
                /\ RowCells(lines[3 + i]) = <<CellAt(cities, i), CellAt(complexes, i)>>
            /\ (cities = <<>> /\ complexes = <<>>) => \A k \in 1..Len(lines) : ~IsRow(lines[k])
            /\ (cities = <<<<"A">>, <<"B">>>> /\ complexes = <<<<"X">>>>) =>
                /\ n = 2
                /\ RowCells(lines[4]) = <<<<"A">>, <<"X">>>>
                /\ RowCells(lines[5]) = <<<<"B">>, <<>>>>

\* The table of (["A","B"], ["X"]).
C8_Witness ==
    /\ pc = "table_return"
    /\ cities = <<<<"A">>, <<"B">>>>
    /\ complexes = <<<<"X">>>>
    /\ CountOf(html_table, "<tr><td>") = 2

----------------------------------------------------------------------------
(* Properties of extract_options *)

Blank(c) == c \in {" ", "\t", "\n"}

AllBlank(s) == \A i \in 1..Len(s) : Blank(s[i])

\* t is raw without its leading and trailing white space.
IsTrimOf(raw, t) ==
    \E a \in 0..Len(raw), b \in 0..Len(raw) :
        /\ a + b <= Len(raw)
        /\ t = SubSeq(raw, a + 1, Len(raw) - b)
        /\ \A i \in 1..a : Blank(raw[i])
        /\ \A i \in (Len(raw) - b + 1)..Len(raw) : Blank(raw[i])
        /\ t # <<>> => (~Blank(t[1]) /\ ~Blank(t[Len(t)]))

TrimOf(raw) ==
    CHOOSE t \in {SubSeq(raw, a, b) : a \in 1..(Len(raw) + 1), b \in 0..Len(raw)} :
        IsTrimOf(raw, t)

IsEnabledOption(el) == el.tag = "option" /\ el.disabled = FALSE

\* The children of the selects of this name, in document order.
RECURSIVE NamedSelectKids(_, _)
NamedSelectKids(doc, name) ==
    IF doc = <<>> THEN <<>>
    ELSE (IF doc[1].name = name THEN doc[1].kids ELSE <<>>)
         \o NamedSelectKids(Tail(doc), name)

\* The enabled options among these elements and below them, in document order.
RECURSIVE EnabledOptionsBelow(_)
EnabledOptionsBelow(kids) ==
    IF kids = <<>> THEN <<>>
    ELSE (IF IsEnabledOption(kids[1]) THEN <<kids[1]>> ELSE <<>>)
         \o EnabledOptionsBelow(kids[1].kids)
         \o EnabledOptionsBelow(Tail(kids))

\* The trimmed texts of these elements without the empty ones and without "All".
UsableTexts(els) ==
    LET texts == [i \in 1..Len(els) |-> TrimOf(get_text(els[i]))]
        Usable(t) == t # <<>> /\ t # <<"A", "l", "l">>
    IN  SelectSeq(texts, Usable)

\* C6: no element of the result of extract_options is "All", is empty or is white
\* space only, and each is the trimmed text of an enabled option of a select of
\* the given name whose text is not white space only.
C6_NoSentinelNoBlank ==
    pc = "extract_return" =>
        LET enabled == EnabledOptionsBelow(NamedSelectKids(soup, field_name))
        IN  \A k \in 1..Len(options) :
                /\ options[k] # <<"A", "l", "l">>
                /\ options[k] # <<>>
                /\ ~AllBlank(options[k])
                /\ \E i \in 1..Len(enabled) :
                    /\ IsTrimOf(get_text(enabled[i]), options[k])
                    /\ ~AllBlank(get_text(enabled[i]))

\* A padded "All" and a blank option, both enabled, both dropped.
C6_Witness ==
    /\ pc = "extract_return"
    /\ Len(soup) = 1
    /\ soup[1].name = field_name
    /\ soup[1].kids = <<Option(FALSE, <<" ", "A", "l", "l", "\n">>), Option(FALSE, <<" ", "\t">>)>>
    /\ options = <<>>

\* C9 as stated: the result is, in document order, the trimmed texts of all
\* enabled option descendants of the matching select at any depth, without the
\* empty strings and the "All" entries.
C9_AllDescendants ==
    pc = "extract_return" =>
        options = UsableTexts(EnabledOptionsBelow(NamedSelectKids(soup, field_name)))

\* C9 amended: the result is, in document order and with duplicates kept, the
\* trimmed texts of the enabled options that are children of a matching select,
\* without the empty strings and the "All" entries; an option below another
\* child of the select (an option group, an option left open) is not selected.
C9_ChildOptions ==
    pc = "extract_return" =>
        options = UsableTexts(SelectSeq(NamedSelectKids(soup, field_name), IsEnabledOption))

\* An option in an option group is passed over, the option after it is returned.
C9_Witness ==
    /\ pc = "extract_return"
    /\ Len(soup) = 1
    /\ soup[1].name = field_name
    /\ soup[1].kids = <<Element("optgroup", FALSE, <<>>, <<Option(FALSE, <<"B">>)>>),
                        Option(FALSE, <<" ", "B", " ", "B", " ">>)>>
    /\ options = <<<<"B", " ", "B">>>>

====
